---------------------------- MODULE Spec2Model ----------------------------
(***************************************************************************)
(* A model of precheck.py, the project-convention validator.               *)
(*                                                                         *)
(* Strings that the code inspects character by character (endswith) are    *)
(* tuples of one-character strings; dotted module paths are tuples of      *)
(* tokens in which "." is a token of its own, so that split(".")[0] is     *)
(* computed.  Syntax-tree nodes are records carrying a `type` field named  *)
(* after the ast class, and the fields of that class the code reads.       *)
(* A console line is a tuple: <<"fail", kind, details...>> for the         *)
(* line printed by fail(), <<"ok", kind, details...>> for a success        *)
(* marker, <<"start">> and <<"banner">> for the first and last line.       *)
(***************************************************************************)
EXTENDS Integers, Sequences, FiniteSets, TLC

VARIABLES
    proj,      \* the project on disk (unchanged by a run: the validator never writes)
    pc,        \* the position of main(): the next check to call, "exited" or "idle"
    out,       \* the lines printed to standard output by the current run
    exitCode,  \* the exit status of the current run: <<>> while running, <<0>> or <<1>>
    started,   \* the checks the current run has entered, in order
    runNo,     \* 1 for the first run of main(), 2 for the run that follows it
    prevOut,   \* the lines printed by the first run, once it has ended
    prevExit,  \* the exit status of the first run, once it has ended
    arg,       \* the input handed to a single check function
    res        \* the outcome of that check function: <<>> before the call, <<r>> after

vars == <<proj, pc, out, exitCode, started, runNo, prevOut, prevExit, arg, res>>

None == "None"

(***************************************************************************)
(* Bounds of the model.                                                    *)
(***************************************************************************)
MaxBody == 3        \* top-level statements of a flow file
MaxMembers == 2     \* members of a Flow class
MaxDecorators == 1  \* decorations of one run method
MaxStmts == 2       \* statements following the definition in main.py
MaxImports == 2     \* import statements of one file under app/
MaxDeviations == 2  \* departures of a project from the conforming layout

(***************************************************************************)
(* Generic helpers.                                                        *)
(***************************************************************************)
RECURSIVE SeqsUpTo(_, _)
SeqsUpTo(S, n) ==
    IF n = 0 THEN {<<>>}
    ELSE LET shorter == SeqsUpTo(S, n - 1)
         IN  shorter \cup {Append(s, x) : s \in {t \in shorter : Len(t) = n - 1}, x \in S}

RECURSIVE SubsetsUpTo(_, _)
SubsetsUpTo(S, n) ==
    IF n = 0 THEN {{}}
    ELSE LET smaller == SubsetsUpTo(S, n - 1)
         IN  smaller \cup {d \cup {x} : d \in smaller, x \in S}

RECURSIVE Perms(_)
Perms(S) ==
    IF S = {} THEN {<<>>}
    ELSE UNION {{<<x>> \o p : p \in Perms(S \ {x})} : x \in S}

Range(s) == {s[i] : i \in DOMAIN s}

\* The most entries one enumeration yields: the five *.py files of the
\* conforming project and one more for each departure from it.
MaxEntries == 5 + MaxDeviations

\* The orders in which n entries can be yielded, as orders of their positions.
IndexOrders == [n \in 0..MaxEntries |-> Perms(1..n)]

\* The elements of a set, one after the other.
RECURSIVE SetToSeq(_)
SetToSeq(S) ==
    IF S = {} THEN <<>>
    ELSE LET x == CHOOSE y \in S : TRUE IN <<x>> \o SetToSeq(S \ {x})

\* The orders in which a directory may yield the entries S, and the entries
\* in one of these orders.
Orders(S) == IndexOrders[Cardinality(S)]
Yielded(S, order) ==
    LET entries == SetToSeq(S)
    IN  [i \in DOMAIN order |-> entries[order[i]]]

\* str.endswith
EndsWith(s, suffix) ==
    /\ Len(s) >= Len(suffix)
    /\ SubSeq(s, Len(s) - Len(suffix) + 1, Len(s)) = suffix

\* The outcome of a check: the lines it printed, whether the process ended in
\* it, and whether what ended it was an exception nothing catches.
Passed(lines) == [out |-> lines, died |-> FALSE, raised |-> FALSE]

\* fail(): the line is printed and sys.exit(1) ends the process.
Failed(lines, message) == [out |-> Append(lines, message), died |-> TRUE, raised |-> FALSE]

\* An exception that no handler catches: nothing more is printed to standard
\* output, the traceback goes to standard error and the status is 1.
Raised(lines) == [out |-> lines, died |-> TRUE, raised |-> TRUE]

(***************************************************************************)
(* Character strings.                                                      *)
(***************************************************************************)
sFlow == <<"F", "l", "o", "w">>
sAFlow == <<"A", "F", "l", "o", "w">>
sBFlow == <<"B", "F", "l", "o", "w">>
sFlowA == <<"F", "l", "o", "w", "A">>
sAflow == <<"A", "f", "l", "o", "w">>
sInnerFlow == <<"I", "n", "F", "l", "o", "w">>

(***************************************************************************)
(* check_run_method                                                        *)
(***************************************************************************)
IsFunction(item) == item.type \in {"FunctionDef", "AsyncFunctionDef"}

\* The loop without its break: the last function named run wins.
RunMethodIndexLastWins(class_node) ==
    LET hits == {i \in DOMAIN class_node.body :
                    /\ IsFunction(class_node.body[i])
                    /\ class_node.body[i].name = "run"}
    IN  IF hits = {} THEN 0 ELSE CHOOSE i \in hits : \A j \in hits : i >= j

\* for item in class_node.body: first function named run, else None
RunMethodIndex(class_node) ==
    LET hits == {i \in DOMAIN class_node.body :
                    /\ IsFunction(class_node.body[i])
                    /\ class_node.body[i].name = "run"}
    IN  IF hits = {} THEN 0 ELSE CHOOSE i \in hits : \A j \in hits : i <= j

\* run_method, when the loop found one
FindRunMethod(class_node) == class_node.body[RunMethodIndex(class_node)]

IsClassmethodDecorator(d) ==
    \/ d.type = "Name" /\ d.id = "classmethod"
    \/ d.type = "Attribute" /\ d.attr = "classmethod"

HasClassmethod(run_method) ==
    \E i \in DOMAIN run_method.decorator_list :
        IsClassmethodDecorator(run_method.decorator_list[i])

KwonlyNames(run_method) == Range(run_method.args.kwonlyargs)

\* total_usage looked up among all named parameters instead of the keyword-only ones.
HasTotalUsageAnywhere(run_method) ==
    "total_usage" \in Range(run_method.args.args) \cup Range(run_method.args.kwonlyargs)

HasTotalUsage(run_method) == "total_usage" \in KwonlyNames(run_method)

RunShape(run_method, class_node, file) ==
    IF run_method.type # "AsyncFunctionDef"
    THEN Failed(<<>>, <<"fail", "run_not_async", file, class_node.name>>)
    ELSE IF ~HasClassmethod(run_method)
    THEN Failed(<<>>, <<"fail", "run_not_classmethod", file, class_node.name>>)
    ELSE IF ~HasTotalUsage(run_method)
    THEN Failed(<<>>, <<"fail", "run_no_total_usage", file, class_node.name>>)
    ELSE Passed(<<<<"ok", "run", class_node.name, file>>>>)

check_run_method(class_node, file) ==
    IF RunMethodIndex(class_node) = 0
    THEN Failed(<<>>, <<"fail", "run_absent", file, class_node.name>>)
    ELSE RunShape(FindRunMethod(class_node), class_node, file)

(***************************************************************************)
(* check_flow_file                                                         *)
(***************************************************************************)
\* classes = [node for node in tree.body if isinstance(node, ast.ClassDef)]
\* flow_classes = [cls for cls in classes if cls.name.endswith('Flow')]
\* startswith in place of endswith.
IsFlowClassByPrefix(node) ==
    node.type = "ClassDef" /\ Len(node.name) >= 4 /\ SubSeq(node.name, 1, 4) = sFlow

IsFlowClass(node) == node.type = "ClassDef" /\ EndsWith(node.name, sFlow)

FlowClasses(tree) == SelectSeq(tree, IsFlowClass)

check_flow_file(file, tree) ==
    IF Len(FlowClasses(tree)) = 0
    THEN Failed(<<>>, <<"fail", "flow_missing", file>>)
    ELSE IF Len(FlowClasses(tree)) > 1
    THEN Failed(<<>>, <<"fail", "flow_multiple", file, Len(FlowClasses(tree))>>)
    ELSE check_run_method(FlowClasses(tree)[1], file)

(***************************************************************************)
(* check_demo_main                                                         *)
(***************************************************************************)
\* first top-level AsyncFunctionDef named main, else 0
AsyncMainIndex(tree) ==
    LET hits == {i \in DOMAIN tree :
                    tree[i].type = "AsyncFunctionDef" /\ tree[i].name = "main"}
    IN  IF hits = {} THEN 0 ELSE CHOOSE i \in hits : \A j \in hits : i <= j

HasSyncMain(tree) ==
    \E i \in DOMAIN tree : tree[i].type = "FunctionDef" /\ tree[i].name = "main"

\* main_func.args.args or .kwonlyargs or .vararg or .kwarg
MainTakesArguments(main_func) ==
    \/ main_func.args.args # <<>>
    \/ main_func.args.kwonlyargs # <<>>
    \/ main_func.args.vararg # None
    \/ main_func.args.kwarg # None

\* call.func is the name main
IsDirectMainCall(call) == call.func.type = "Name" /\ call.func.id = "main"

\* call.func is asyncio.run and call.args[0] is a call of the name main
IsAsyncioRunMainCall(call) ==
    /\ call.func.type = "Attribute"
    /\ call.func.attr = "run"
    /\ call.func.value.type = "Name"
    /\ call.func.value.id = "asyncio"
    /\ call.args # <<>>
    /\ call.args[1].type = "Call"
    /\ call.args[1].func.type = "Name"
    /\ call.args[1].func.id = "main"

InvokesMain(node) ==
    /\ node.type = "Expr"
    /\ node.value.type = "Call"
    /\ (IsDirectMainCall(node.value) \/ IsAsyncioRunMainCall(node.value))

\* for node in tree.body[::-1]: ... calls_main = True; break
CallsMain(tree) == \E i \in DOMAIN tree : InvokesMain(tree[i])

demo_main_tree(tree) ==
    IF AsyncMainIndex(tree) = 0
    THEN IF HasSyncMain(tree)
         THEN Failed(<<>>, <<"fail", "main_not_async">>)
         ELSE Failed(<<>>, <<"fail", "main_missing">>)
    ELSE IF MainTakesArguments(tree[AsyncMainIndex(tree)])
    THEN Failed(<<>>, <<"fail", "main_takes_arguments">>)
    ELSE IF ~CallsMain(tree)
    THEN Failed(<<>>, <<"fail", "main_not_invoked">>)
    ELSE Passed(<<<<"ok", "demo_main">>>>)

(***************************************************************************)
(* check_app_imports                                                       *)
(***************************************************************************)
\* full_name.split(".")[0]
RECURSIVE FirstSegment(_)
FirstSegment(path) ==
    IF path = <<>> \/ Head(path) = "." THEN <<>>
    ELSE <<Head(path)>> \o FirstSegment(Tail(path))

allowed_full_import == <<"eksmo_src", ".", "eksmo_types">>

\* A directory entry as iterdir() yields it: its name as tokens, which read
\* one after the other spell the name, and whether it is a directory or a file.
Entry(name, kind) == [name |-> name, kind |-> kind]

\* The tokens that spell a final component ".xyz" of a name.
SuffixTokens == {".py", ".md", ".yaml", ".toml", ".txt"}

\* item.suffix: the final ".xyz" component of the name when the name does not
\* begin with it, else the empty string
Suffix(item) ==
    IF Len(item.name) > 1 /\ item.name[Len(item.name)] \in SuffixTokens
    THEN item.name[Len(item.name)]
    ELSE ""

\* item.stem: the name without its suffix, as tokens (x_flow.py gives x_flow)
Stem(item) ==
    IF Suffix(item) = "" THEN item.name
    ELSE SubSeq(item.name, 1, Len(item.name) - 1)

\* item.name == "app": the entry at the project root called exactly app
IsAppEntry(item) == item.name = <<"app">>

\* local_modules, from PROJECT_ROOT.iterdir(): item.name of every directory
\* and item.stem of every .py file, the entry called app left out.  A module
\* name is the tokens that spell it, as FirstSegment yields them.
LocalModules(root) ==
    {item.name : item \in {i \in root : ~IsAppEntry(i) /\ i.kind = "dir"}}
    \cup {Stem(item) : item \in {i \in root : ~IsAppEntry(i) /\ i.kind = "file"
                                               /\ Suffix(i) = ".py"}}

\* The allow-list applied to the root of the path instead of the whole path.
ForbiddenModuleAllowRoot(full_name, local_modules) ==
    /\ FirstSegment(full_name) # FirstSegment(allowed_full_import)
    /\ FirstSegment(full_name) \in local_modules
    /\ FirstSegment(full_name) # <<"app">>

ForbiddenModule(full_name, local_modules) ==
    /\ full_name # allowed_full_import
    /\ FirstSegment(full_name) \in local_modules
    /\ FirstSegment(full_name) # <<"app">>

\* The first alias of an `import a, b` statement that is forbidden, else 0.
ForbiddenAlias(node, local_modules) ==
    LET hits == {i \in DOMAIN node.names : ForbiddenModule(node.names[i], local_modules)}
    IN  IF hits = {} THEN 0 ELSE CHOOSE i \in hits : \A j \in hits : i <= j

\* No line to print.
NoReport == <<>>

\* node.module of `from . import x` is None: the empty path stands for it.
NoModule == <<>>

\* What one node of ast.walk(tree) makes the check report: a fail line or NoReport.
ImportViolation(py_file, node, local_modules) ==
    IF node.type = "Import"
    THEN IF ForbiddenAlias(node, local_modules) = 0 THEN NoReport
         ELSE <<"fail", "import_local", py_file,
                node.names[ForbiddenAlias(node, local_modules)]>>
    ELSE IF node.type = "ImportFrom"
    THEN IF node.level # 0 THEN NoReport
         ELSE IF node.module = NoModule THEN NoReport
         ELSE IF ForbiddenModule(node.module, local_modules)
         THEN <<"fail", "import_local_from", py_file, node.module>>
         ELSE NoReport
    ELSE NoReport

\* The nodes of one file in ast.walk order, each turned into its report.
FileViolations(file, local_modules) ==
    [i \in DOMAIN file.walk |->
        ImportViolation(<<file.dirs, file.name>>, file.walk[i], local_modules)]

\* path.read_text() of a directory raises IsADirectoryError.
IsADirectoryError(path) == <<"raise", "IsADirectoryError", <<path.dirs, path.name>>>>

IsRaise(report) == report # NoReport /\ report[1] = "raise"

\* for py_file in app_dir.rglob("*.py"): tree = ast.parse(py_file.read_text());
\* for node in ast.walk(tree): ...
\* `files` is what rglob yields, in the order it yields it: the files and the
\* directories named *.py.  The result is the first fail line, or the
\* exception met before any, or NoReport.
RECURSIVE FirstImportViolation(_, _)
FirstImportViolation(files, local_modules) ==
    IF files = <<>> THEN NoReport
    ELSE IF Head(files).kind = "dir" THEN IsADirectoryError(Head(files))
    ELSE LET reports == FileViolations(Head(files), local_modules)
             hits == {i \in DOMAIN reports : reports[i] # NoReport}
         IN  IF hits # {}
             THEN reports[CHOOSE i \in hits : \A j \in hits : i <= j]
             ELSE FirstImportViolation(Tail(files), local_modules)

app_imports(root, files) ==
    LET report == FirstImportViolation(files, LocalModules(root))
    IN  IF report = NoReport THEN Passed(<<<<"ok", "app_imports">>>>)
        ELSE IF IsRaise(report) THEN Raised(<<>>)
        ELSE Failed(<<>>, report)

(***************************************************************************)
(* The file system under PROJECT_ROOT.  A project is a record               *)
(* [root, files, dirs]: the directory names of the resolved PROJECT_ROOT,  *)
(* the regular files (File records) and the directories (each the tuple of *)
(* directory names leading to it from the root).                           *)
(* Every *.py file is readable and parses.                                 *)
(***************************************************************************)
\* A path is the sequence of the names of its components, and a name is the
\* tokens that spell it: app/outsource is << <<"app">>, <<"outsource">> >> and
\* a directory tools/pkg.py is << <<"tools">>, <<"pkg", ".py">> >>.
AppPath == << <<"app">> >>
OutsourcePath == << <<"app">>, <<"outsource">> >>
FLOWS_DIR == << <<"app">>, <<"outsource">>, <<"flows">> >>
DemonstrationPath == << <<"demonstration">> >>
EksmoSrcPath == << <<"eksmo_src">> >>

IsFile(p, dirs, name) == \E f \in p.files : f.dirs = dirs /\ f.name = name
IsDir(p, path) == path \in p.dirs

Parent(path) == SubSeq(path, 1, Len(path) - 1)
Last(path) == path[Len(path)]

\* dir.iterdir(): the entries directly inside the directory
IterDir(p, path) ==
    {Entry(f.name, "file") : f \in {g \in p.files : g.dirs = path}}
    \cup {Entry(Last(d), "dir") : d \in {e \in p.dirs : e # <<>> /\ Parent(e) = path}}

IsUnder(dirs, path) == Len(dirs) >= Len(path) /\ SubSeq(dirs, 1, Len(path)) = path

\* A directory as glob and rglob yield it: where it stands and its name.
Directory(d) == [dirs |-> Parent(d), name |-> Last(d), kind |-> "dir"]

\* The directories strictly below the directory `path`.
DirsBelow(p, path) == {d \in p.dirs : d # <<>> /\ IsUnder(Parent(d), path)}

\* dir.rglob("*.py"): whatever is named *.py at any depth below the directory,
\* the regular files and the directories alike
RGlobPy(p, path) ==
    {f \in p.files : IsUnder(f.dirs, path) /\ EndsWith(f.name, <<".py">>)}
    \cup {Directory(d) : d \in {e \in DirsBelow(p, path) :
                                   EndsWith(Last(e), <<".py">>)}}

\* FLOWS_DIR.glob('*_flow.py'): whatever is named *_flow.py directly inside
\* the flows directory, files and directories alike
GlobFlow(p) ==
    {f \in p.files : f.dirs = FLOWS_DIR
                      /\ EndsWith(f.name, <<"_flow", ".py">>)}
    \cup {Directory(d) : d \in {e \in p.dirs : e # <<>>
                                   /\ Parent(e) = FLOWS_DIR
                                   /\ EndsWith(Last(e), <<"_flow", ".py">>)}}

(***************************************************************************)
(* check_project_structure                                                 *)
(***************************************************************************)
Required(description, dirs, name) ==
    [description |-> description, dirs |-> dirs, name |-> name]

\* The required structure with its README.md entry left out.
required_structure_without_readme ==
    << Required(<<"app">>, AppPath, <<>>),
       Required(<<"app/outsource">>, OutsourcePath, <<>>),
       Required(<<"app/outsource/flows">>, FLOWS_DIR, <<>>),
       Required(<<"app/consts", ".py">>, AppPath, <<"consts", ".py">>),
       Required(<<"demonstration">>, DemonstrationPath, <<>>),
       Required(<<"demonstration/main", ".py">>, DemonstrationPath, <<"main", ".py">>),
       Required(<<"eksmo_src">>, EksmoSrcPath, <<>>),
       Required(<<".pre-commit-config", ".yaml">>, <<>>, <<".pre-commit-config", ".yaml">>),
       Required(<<"pyproject", ".toml">>, <<>>, <<"pyproject", ".toml">>) >>

\* required_structure, in the order the dict is written; of a directory
\* `dirs` is its path, of a file `dirs` is its directory and `name` its name
required_structure ==
    << Required(<<"app">>, AppPath, <<>>),
       Required(<<"app/outsource">>, OutsourcePath, <<>>),
       Required(<<"app/outsource/flows">>, FLOWS_DIR, <<>>),
       Required(<<"app/consts", ".py">>, AppPath, <<"consts", ".py">>),
       Required(<<"demonstration">>, DemonstrationPath, <<>>),
       Required(<<"demonstration/main", ".py">>, DemonstrationPath, <<"main", ".py">>),
       Required(<<"eksmo_src">>, EksmoSrcPath, <<>>),
       Required(<<".pre-commit-config", ".yaml">>, <<>>, <<".pre-commit-config", ".yaml">>),
       Required(<<"pyproject", ".toml">>, <<>>, <<"pyproject", ".toml">>),
       Required(<<"README", ".md">>, <<>>, <<"README", ".md">>) >>

\* description.endswith('.py') or ... '.yaml' ... '.toml' ... '.md'
DescribesFile(description) ==
    \/ EndsWith(description, <<".py">>)
    \/ EndsWith(description, <<".yaml">>)
    \/ EndsWith(description, <<".toml">>)
    \/ EndsWith(description, <<".md">>)

RequiredMissing(p, r) ==
    IF DescribesFile(r.description) THEN ~IsFile(p, r.dirs, r.name)
    ELSE ~IsDir(p, r.dirs)

check_project_structure(p) ==
    LET missing == {i \in DOMAIN required_structure : RequiredMissing(p, required_structure[i])}
        first == CHOOSE i \in missing : \A j \in missing : i <= j
    IN  IF missing = {} THEN Passed(<<<<"ok", "project_structure">>>>)
        ELSE IF DescribesFile(required_structure[first].description)
        THEN Failed(<<>>, <<"fail", "missing_file", required_structure[first].description>>)
        ELSE Failed(<<>>, <<"fail", "missing_dir", required_structure[first].description>>)

(***************************************************************************)
(* check_app_directory_contents                                            *)
(***************************************************************************)
allowed_files == {<<"consts", ".py">>, <<"__init__", ".py">>}
allowed_dirs == {<<"outsource">>}

\* What one entry of app/ makes the check report: a fail line or NoReport.
AppEntryViolation(item) ==
    IF item.kind = "dir"
    THEN IF item.name \notin allowed_dirs THEN <<"fail", "app_bad_dir", item.name>>
         ELSE NoReport
    ELSE IF item.name \notin allowed_files THEN <<"fail", "app_bad_file", item.name>>
         ELSE NoReport

\* The first report of a sequence of reports, NoReport when there is none.
FirstReport(reports) ==
    LET hits == {i \in DOMAIN reports : reports[i] # NoReport}
    IN  IF hits = {} THEN NoReport
        ELSE reports[CHOOSE i \in hits : \A j \in hits : i <= j]

\* `listing` is app_dir.iterdir() in the order the directory yields it.
check_app_directory_contents(p, listing) ==
    IF ~IsDir(p, AppPath) THEN Failed(<<>>, <<"fail", "app_missing">>)
    ELSE LET report == FirstReport([i \in DOMAIN listing |-> AppEntryViolation(listing[i])])
         IN  IF report # NoReport THEN Failed(<<>>, report)
             ELSE Passed(<<<<"ok", "app_contents">>>>)

\* `files` is app_dir.rglob("*.py") in the order it yields the files.
check_app_imports(p, files) == app_imports(IterDir(p, <<>>), files)

(***************************************************************************)
(* check_structure                                                         *)
(***************************************************************************)
FlowEntryViolation(file) ==
    IF file.kind # "file" THEN NoReport
    ELSE IF file.name \in {<<"__init__", ".py">>} THEN NoReport
    ELSE IF ~EndsWith(file.name, <<"_flow", ".py">>)
    THEN <<"fail", "flow_bad_name", file.name>>
    ELSE NoReport

\* `listing` is FLOWS_DIR.iterdir() in the order the directory yields it.
check_structure(p, listing) ==
    IF ~IsDir(p, FLOWS_DIR) THEN Failed(<<>>, <<"fail", "flows_missing">>)
    ELSE LET report == FirstReport([i \in DOMAIN listing |-> FlowEntryViolation(listing[i])])
         IN  IF report # NoReport THEN Failed(<<>>, report)
             ELSE Passed(<<<<"ok", "structure">>>>)

(***************************************************************************)
(* check_demo_main, check_flow_run_signature                               *)
(***************************************************************************)
MainFile(p) ==
    CHOOSE f \in p.files : f.dirs = DemonstrationPath /\ f.name = <<"main", ".py">>

check_demo_main(p) ==
    IF ~IsFile(p, DemonstrationPath, <<"main", ".py">>)
    THEN Failed(<<>>, <<"fail", "main_file_missing">>)
    ELSE demo_main_tree(MainFile(p).tree)

\* check_flow_file(file) on what the glob yields: file.read_text() raises on
\* a directory, a file is parsed and judged.
FlowFileOutcome(file) ==
    IF file.kind = "dir" THEN Raised(<<>>)
    ELSE check_flow_file(file.name, file.tree)

\* for file in FLOWS_DIR.glob('*_flow.py'): check_flow_file(file)
\* `files` is the glob in the order it yields its entries; the lines of the
\* files that passed stay printed when a later one ends the process.
RECURSIVE check_flow_run_signature(_)
check_flow_run_signature(files) ==
    IF files = <<>> THEN Passed(<<>>)
    ELSE LET first == FlowFileOutcome(Head(files))
             rest == check_flow_run_signature(Tail(files))
         IN  IF first.died THEN first
             ELSE [out |-> first.out \o rest.out, died |-> rest.died,
                   raised |-> rest.raised]

(***************************************************************************)
(* check_readme                                                            *)
(* The text of README.md after strip() is a sequence of lines; of a line   *)
(* the model keeps whether it starts with "#", the length of the stripped  *)
(* line and which keywords occur in it (lower-cased).                      *)
(***************************************************************************)
Line(heading, length, words) == [heading |-> heading, length |-> length, words |-> words]

first_lines_limit == 15
min_description_length == 10
max_lines == 1000

\* The Russian keywords are written in Latin letters.
install_keywords == {"ustanovka", "installation", "setup", "installyatsiya", "install"}
run_keywords == {"zapusk", "run", "usage", "ispolzovanie", "demonstratsiya"}

ReadmeFile(p) == CHOOSE f \in p.files : f.dirs = <<>> /\ f.name = <<"README", ".md">>

\* content.splitlines()[:15]
FirstLines(content) ==
    SubSeq(content, 1, IF Len(content) < first_lines_limit THEN Len(content)
                       ELSE first_lines_limit)

HasDescription(content) ==
    \E i \in DOMAIN FirstLines(content) :
        /\ ~FirstLines(content)[i].heading
        /\ FirstLines(content)[i].length > min_description_length

ContainsAny(content, keywords) ==
    \E i \in DOMAIN content : content[i].words \cap keywords # {}

readme_content(content) ==
    IF content = <<>> THEN Failed(<<>>, <<"fail", "readme_empty">>)
    ELSE IF ~content[1].heading THEN Failed(<<>>, <<"fail", "readme_no_heading">>)
    ELSE IF ~HasDescription(content) THEN Failed(<<>>, <<"fail", "readme_no_description">>)
    ELSE IF ~ContainsAny(content, install_keywords)
    THEN Failed(<<>>, <<"fail", "readme_no_install">>)
    ELSE IF ~ContainsAny(content, run_keywords)
    THEN Failed(<<>>, <<"fail", "readme_no_run">>)
    ELSE Passed(<<<<"ok", "readme">>>>)

check_readme(p) ==
    IF ~IsFile(p, <<>>, <<"README", ".md">>)
    THEN Failed(<<>>, <<"fail", "readme_missing">>)
    ELSE readme_content(ReadmeFile(p).text)

(***************************************************************************)
(* check_all_python_files_length                                           *)
(***************************************************************************)
\* path.parts of a file rglob yields under the resolved PROJECT_ROOT: the
\* directory names of the root itself, then those below it.  The last part,
\* the file's own name, ends in .py and is neither of the two names tested.
PathDirs(p, file) == p.root \o file.dirs

\* "venv" in path.parts or "env" in path.parts
Skipped(p, file) ==
    <<"venv">> \in Range(PathDirs(p, file)) \/ <<"env">> \in Range(PathDirs(p, file))

\* One path of the loop: skipped, or check_file_length(path), whose
\* file.read_text() raises on a directory.  The fail line names the file,
\* written here as in the import check by its place under the root, and its
\* number of lines.
FileLengthViolation(p, file) ==
    IF Skipped(p, file) THEN NoReport
    ELSE IF file.kind = "dir" THEN IsADirectoryError(file)
    ELSE IF file.lines > max_lines
    THEN <<"fail", "too_long", <<file.dirs, file.name>>, file.lines>>
    ELSE NoReport

\* `files` is PROJECT_ROOT.rglob("*.py") in the order it yields its entries;
\* the check prints nothing when it passes.
check_all_python_files_length(p, files) ==
    LET report == FirstReport([i \in DOMAIN files |-> FileLengthViolation(p, files[i])])
    IN  IF report = NoReport THEN Passed(<<>>)
        ELSE IF IsRaise(report) THEN Raised(<<>>)
        ELSE Failed(<<>>, report)

(***************************************************************************)
(* Syntax trees the single-function specifications draw their inputs from. *)
(***************************************************************************)
\* ast.arguments; `defaults` holds the default values of the positional parameters
Arguments(posonly, positional, kwonly, vararg, kwarg) ==
    [posonlyargs |-> posonly, args |-> positional, kwonlyargs |-> kwonly,
     vararg |-> vararg, kwarg |-> kwarg, defaults |-> <<>>]

NoArguments == Arguments(<<>>, <<>>, <<>>, None, None)

Function(type, name, decorators, arguments) ==
    [type |-> type, name |-> name, decorator_list |-> decorators, args |-> arguments]

Class(name, body) == [type |-> "ClassDef", name |-> name, body |-> body]

NameExpr(id) == [type |-> "Name", id |-> id]
AttributeExpr(value, attr) == [type |-> "Attribute", value |-> value, attr |-> attr]
CallExpr(func, args) == [type |-> "Call", func |-> func, args |-> args]
ExprStmt(value) == [type |-> "Expr", value |-> value]
AssignStmt(target, value) == [type |-> "Assign", name |-> target, value |-> value]

Decorators ==
    { NameExpr("classmethod"),
      NameExpr("staticmethod"),
      AttributeExpr(NameExpr("abc"), "classmethod"),
      CallExpr(NameExpr("classmethod"), <<>>) }

RunArguments ==
    { Arguments(<<>>, <<"cls">>, <<"total_usage">>, None, None),
      Arguments(<<>>, <<"cls">>, <<"usage", "total_usage">>, None, None),
      Arguments(<<>>, <<"cls", "total_usage">>, <<>>, None, None),
      Arguments(<<>>, <<"cls">>, <<"usage">>, None, None),
      Arguments(<<"cls">>, <<>>, <<>>, "total_usage", "kwargs") }

RunMethods(decorators) ==
    { Function(t, "run", d, a) :
        t \in {"FunctionDef", "AsyncFunctionDef"},
        d \in SeqsUpTo(Decorators, decorators),
        a \in RunArguments }

ValidRun ==
    Function("AsyncFunctionDef", "run", <<NameExpr("classmethod")>>,
             Arguments(<<>>, <<"cls">>, <<"total_usage">>, None, None))

SyncRun ==
    Function("FunctionDef", "run", <<NameExpr("classmethod")>>,
             Arguments(<<>>, <<"cls">>, <<"total_usage">>, None, None))

PlainRun ==
    Function("AsyncFunctionDef", "run", <<>>,
             Arguments(<<>>, <<"self">>, <<"total_usage">>, None, None))

PositionalRun ==
    Function("AsyncFunctionDef", "run", <<NameExpr("classmethod")>>,
             Arguments(<<>>, <<"cls", "total_usage">>, <<>>, None, None))

Helper ==
    Function("AsyncFunctionDef", "helper", <<NameExpr("classmethod")>>,
             Arguments(<<>>, <<"cls">>, <<"total_usage">>, None, None))

\* Members that are not functions: `run = None` and a nested `class run:`.
OtherMembers ==
    { AssignStmt("run", NameExpr("None")), Class("run", <<ValidRun>>) }

\* Class bodies: one run method of any shape behind a prefix that holds no
\* function named run, and short bodies with several members named run.
ClassBodies(members, decorators) ==
    { prefix \o <<m>> :
        prefix \in {<<>>, <<Helper>>, <<AssignStmt("run", NameExpr("None"))>>},
        m \in RunMethods(decorators) }
    \cup SeqsUpTo({ValidRun, SyncRun, PlainRun, PositionalRun, Helper} \cup OtherMembers,
                  members)

ClassNodes(members, decorators) ==
    { Class(sAFlow, body) : body \in ClassBodies(members, decorators) }

\* Top-level statements of a flow file.
FlowFileNodes ==
    { Class(sAFlow, <<ValidRun>>),
      Class(sBFlow, <<>>),
      Class(sFlow, <<SyncRun>>),
      Class(sFlowA, <<Class(sInnerFlow, <<ValidRun>>)>>),
      Class(sAflow, <<ValidRun>>),
      [type |-> "FunctionDef", name |-> sInnerFlow, decorator_list |-> <<>>,
       args |-> NoArguments,
       body |-> <<Class(sBFlow, <<ValidRun>>)>>],
      AssignStmt(sFlow, NameExpr("None")) }

FlowTrees(n) == SeqsUpTo(FlowFileNodes, n)

\* Signatures of `async def main(...)`.
MainArguments ==
    { NoArguments,
      Arguments(<<>>, <<"a">>, <<>>, None, None),
      [Arguments(<<>>, <<"a">>, <<>>, None, None) EXCEPT !.defaults = <<NameExpr("None")>>],
      Arguments(<<"a">>, <<>>, <<>>, None, None),
      Arguments(<<>>, <<>>, <<"a">>, None, None),
      Arguments(<<>>, <<>>, <<>>, "args", None),
      Arguments(<<>>, <<>>, <<>>, None, "kwargs") }

AsyncMain(arguments) == Function("AsyncFunctionDef", "main", <<>>, arguments)
SyncMain == Function("FunctionDef", "main", <<>>, NoArguments)
AsyncOther == Function("AsyncFunctionDef", "other", <<>>, NoArguments)

\* What main.py holds before its trailing statements.
MainDefinitions ==
    { <<AsyncMain(a)>> : a \in MainArguments }
    \cup { <<>>, <<SyncMain>>, <<AsyncOther>>, <<SyncMain, AsyncMain(NoArguments)>> }

MainCall == CallExpr(NameExpr("main"), <<>>)
OtherCall == CallExpr(NameExpr("other"), <<>>)
AsyncioRun == AttributeExpr(NameExpr("asyncio"), "run")

TrailingStatements ==
    { ExprStmt(MainCall),                                             \* main()
      ExprStmt(CallExpr(AsyncioRun, <<MainCall>>)),                   \* asyncio.run(main())
      ExprStmt(CallExpr(AsyncioRun, <<OtherCall>>)),                  \* asyncio.run(other())
      ExprStmt(CallExpr(AsyncioRun, <<MainCall, NameExpr("x")>>)),    \* asyncio.run(main(), x)
      ExprStmt(CallExpr(AsyncioRun, <<NameExpr("x"), MainCall>>)),    \* asyncio.run(x, main())
      ExprStmt(CallExpr(AsyncioRun, <<>>)),                           \* asyncio.run()
      ExprStmt(CallExpr(AsyncioRun, <<NameExpr("main")>>)),           \* asyncio.run(main)
      ExprStmt(CallExpr(AttributeExpr(NameExpr("asyncio"), "start"), <<MainCall>>)),
      ExprStmt(CallExpr(AttributeExpr(NameExpr("trio"), "run"), <<MainCall>>)),
      ExprStmt(CallExpr(AttributeExpr(AttributeExpr(NameExpr("x"), "asyncio"), "run"),
                        <<MainCall>>)),                               \* x.asyncio.run(main())
      ExprStmt(OtherCall),                                            \* other()
      ExprStmt(NameExpr("main")),                                     \* main
      AssignStmt("x", MainCall) }                                     \* x = main()

MainTrees(n) ==
    { d \o t : d \in MainDefinitions, t \in SeqsUpTo(TrailingStatements, n) }

\* Dotted module paths.
pEksmoTypes == <<"eksmo_src", ".", "eksmo_types">>
pEksmoOther == <<"eksmo_src", ".", "other">>
pEksmoSrc == <<"eksmo_src">>
pEksmoTypesSub == <<"eksmo_src", ".", "eksmo_types", ".", "sub">>
pAppConsts == <<"app", ".", "consts">>
pUtils == <<"utils">>
pXFlow == <<"x", "_flow">>
pX == <<"x">>
pOs == <<"os", ".", "path">>

Import(names) == [type |-> "Import", names |-> names]
ImportFrom(module, level) == [type |-> "ImportFrom", module |-> module, level |-> level]

\* Nodes that ast.walk yields: import statements of every form, and a node
\* that is no import.
WalkNodes ==
    { Import(<<m>>) : m \in {pEksmoOther, pAppConsts, pUtils, pOs, pXFlow, pX} }
    \cup { Import(<<pEksmoTypes, pEksmoOther>>), Import(<<pOs, pUtils>>) }
    \cup { ImportFrom(m, 0) : m \in {pEksmoTypes, pEksmoOther, pEksmoSrc, pEksmoTypesSub} }
    \cup { ImportFrom(NoModule, 1), ImportFrom(pEksmoOther, 2) }
    \cup { ExprStmt(MainCall) }

\* Listings of the project root: app/ is always there, the others vary.
RootListings ==
    { {Entry(<<"app">>, "dir"), Entry(<<"README", ".md">>, "file")} \cup e \cup u \cup a :
        e \in {{}, {Entry(<<"eksmo_src">>, "dir")}},
        u \in {{Entry(<<"utils", ".py">>, "file")}, {Entry(<<"utils", ".md">>, "file")}},
        a \in {{}, {Entry(<<"app", ".py">>, "file"), Entry(<<"x", "_flow", ".py">>, "file")},
               {Entry(<<"x", "_flow">>, "dir"), Entry(<<"mod", ".py">>, "dir")}} }

\* A regular file: the directories leading to it, its name as tokens, the
\* nodes ast.walk yields for it, its top-level statements, its number of
\* lines and (for the README) its text.
File(dirs, name, walk, tree, lines, text) ==
    [dirs |-> dirs, name |-> name, kind |-> "file", walk |-> walk, tree |-> tree,
     lines |-> lines, text |-> text]

ConstsName == <<"consts", ".py">>
AFlowName == <<"a", "_flow", ".py">>
BFlowName == <<"b", "_flow", ".py">>

\* The directory app/outsource/flows/c_flow.py as rglob yields it.
CFlowDirectory == Directory(FLOWS_DIR \o << <<"c", "_flow", ".py">> >>)

\* One file of any content: alone, followed by a second file, or with a
\* directory named *.py yielded after it or before it.
ImportInputs(n) ==
    { [root |-> r,
       files |-> around[1] \o <<File(AppPath, ConstsName, w, <<>>, 1, <<>>)>> \o around[2]] :
        r \in RootListings,
        w \in SeqsUpTo(WalkNodes, n),
        around \in { << <<>>, <<>> >>,
                     << <<>>, <<File(FLOWS_DIR, AFlowName, <<ImportFrom(pUtils, 0)>>, <<>>, 1,
                                     <<>>)>> >>,
                     << <<>>, <<CFlowDirectory>> >>,
                     << <<CFlowDirectory>>, <<>> >> } }

(***************************************************************************)
(* Specifications of the single check functions: the input is drawn in the *)
(* initial state and the one action calls the function on it.              *)
(***************************************************************************)
NoProject == [none |-> TRUE]

NoRun ==
    /\ proj = NoProject
    /\ pc = "idle"
    /\ out = <<>>
    /\ exitCode = <<>>
    /\ started = <<>>
    /\ runNo = 0
    /\ prevOut = <<>>
    /\ prevExit = <<>>

runVars == <<proj, pc, out, exitCode, started, runNo, prevOut, prevExit>>

\* check_flow_file(file) on one flow file
InitFlowFile == NoRun /\ arg \in FlowTrees(MaxBody) /\ res = <<>>

CallCheckFlowFile ==
    /\ pc = "idle"
    /\ res = <<>>
    /\ res' = <<check_flow_file("a_flow.py", arg)>>
    /\ UNCHANGED <<runVars, arg>>

SpecFlowFile == InitFlowFile /\ [][CallCheckFlowFile]_vars

\* check_run_method(class_node, file) on one Flow class
InitRunMethod == NoRun /\ arg \in ClassNodes(MaxMembers, MaxDecorators) /\ res = <<>>

CallCheckRunMethod ==
    /\ pc = "idle"
    /\ res = <<>>
    /\ res' = <<check_run_method(arg, "a_flow.py")>>
    /\ UNCHANGED <<runVars, arg>>

SpecRunMethod == InitRunMethod /\ [][CallCheckRunMethod]_vars

\* check_demo_main() on the tree of an existing demonstration/main.py
InitDemoMain == NoRun /\ arg \in MainTrees(MaxStmts) /\ res = <<>>

CallCheckDemoMain ==
    /\ pc = "idle"
    /\ res = <<>>
    /\ res' = <<demo_main_tree(arg)>>
    /\ UNCHANGED <<runVars, arg>>

SpecDemoMain == InitDemoMain /\ [][CallCheckDemoMain]_vars

\* check_app_imports() on a root listing and the files under app/
InitAppImports == NoRun /\ arg \in ImportInputs(MaxImports) /\ res = <<>>

CallCheckAppImports ==
    /\ pc = "idle"
    /\ res = <<>>
    /\ res' = <<app_imports(arg.root, arg.files)>>
    /\ UNCHANGED <<runVars, arg>>

SpecAppImports == InitAppImports /\ [][CallCheckAppImports]_vars

(***************************************************************************)
(* Properties of the single check functions.                               *)
(***************************************************************************)
Called == res # <<>>
Outcome == res[1]
LastLine(r) == r.out[Len(r.out)]
\* The kind of the line a check ended with.
Kind(r) == LastLine(r)[2]

\* The positions of the top-level classes whose name ends in F, l, o, w.
TopLevelFlowPositions(tree) ==
    {i \in DOMAIN tree :
        /\ tree[i].type = "ClassDef"
        /\ Len(tree[i].name) >= 4
        /\ \A k \in 1..4 : tree[i].name[Len(tree[i].name) - 4 + k] = sFlow[k]}

HasNestedFlowClass(tree) ==
    \E i \in DOMAIN tree :
        /\ tree[i].type \in {"ClassDef", "FunctionDef"}
        /\ \E j \in DOMAIN tree[i].body :
              tree[i].body[j].type = "ClassDef" /\ EndsWith(tree[i].body[j].name, sFlow)

\* C4: with N the number of top-level classes whose name ends in 'Flow' (nested
\* classes not counted), N = 0 gives the 'missing' violation, N >= 2 gives the
\* 'multiple' violation reporting exactly N, and N = 1 gives no class-count
\* violation and hands that one class to the run-method check.
C4_FlowClassCount ==
    Called =>
        LET positions == TopLevelFlowPositions(arg)
            n == Cardinality(positions)
        IN  /\ n = 0 => Outcome = Failed(<<>>, <<"fail", "flow_missing", "a_flow.py">>)
            /\ n >= 2 => Outcome = Failed(<<>>, <<"fail", "flow_multiple", "a_flow.py", n>>)
            /\ n = 1 =>
                /\ Kind(Outcome) \notin {"flow_missing", "flow_multiple"}
                /\ \E i \in positions : Outcome = check_run_method(arg[i], "a_flow.py")

C4_Witness ==
    /\ Called
    /\ Cardinality(TopLevelFlowPositions(arg)) = 2
    /\ Len(arg) = 3
    /\ HasNestedFlowClass(arg)
    /\ Kind(Outcome) = "flow_multiple"

\* The run method a class is judged by.
JudgedRun == FindRunMethod(arg)

DeclaredAsync(f) == f.type = "AsyncFunctionDef"

DecoratedClassmethod(f) ==
    \E d \in Range(f.decorator_list) :
        \/ d.type = "Name" /\ d.id = "classmethod"
        \/ d.type = "Attribute" /\ d.attr = "classmethod"

KeywordOnlyTotalUsage(f) == \E i \in DOMAIN f.args.kwonlyargs : f.args.kwonlyargs[i] = "total_usage"

\* C5: the run method is checked for (1) async, (2) a classmethod decoration
\* by bare name or final attribute, (3) total_usage among the keyword-only
\* parameters; the first failing check in that order is the one reported,
\* nothing else is printed, and no violation is reported exactly when all
\* three hold; a positional total_usage does not satisfy (3).
C5_RunShapeOrder ==
    (Called /\ RunMethodIndex(arg) # 0) =>
        /\ Len(Outcome.out) = 1
        /\ ~DeclaredAsync(JudgedRun) => Kind(Outcome) = "run_not_async"
        /\ (DeclaredAsync(JudgedRun) /\ ~DecoratedClassmethod(JudgedRun))
              => Kind(Outcome) = "run_not_classmethod"
        /\ (DeclaredAsync(JudgedRun) /\ DecoratedClassmethod(JudgedRun)
              /\ ~KeywordOnlyTotalUsage(JudgedRun))
              => Kind(Outcome) = "run_no_total_usage"
        /\ ~Outcome.died <=> (/\ DeclaredAsync(JudgedRun)
                              /\ DecoratedClassmethod(JudgedRun)
                              /\ KeywordOnlyTotalUsage(JudgedRun))
        /\ ~Outcome.died => LastLine(Outcome) = <<"ok", "run", arg.name, "a_flow.py">>
        /\ (/\ "total_usage" \in Range(JudgedRun.args.args)
            /\ "total_usage" \notin Range(JudgedRun.args.kwonlyargs)) => Outcome.died

C5_Witness ==
    /\ Called
    /\ RunMethodIndex(arg) # 0
    /\ DeclaredAsync(JudgedRun)
    /\ DecoratedClassmethod(JudgedRun)
    /\ "total_usage" \in Range(JudgedRun.args.args)
    /\ Kind(Outcome) = "run_no_total_usage"

\* The positions of the direct members that are functions named run.
RunPositions(class_node) ==
    {i \in DOMAIN class_node.body :
        /\ class_node.body[i].type \in {"FunctionDef", "AsyncFunctionDef"}
        /\ class_node.body[i].name = "run"}

FirstRunPosition(class_node) ==
    CHOOSE i \in RunPositions(class_node) : \A j \in RunPositions(class_node) : i <= j

\* C10: of several direct members named run only the first in declaration
\* order is validated: the outcome is the outcome of the class cut off after
\* that member, a synchronous first run is reported as not async whatever
\* follows, and a class without a function member named run gets 'absent'.
C10_FirstRunWins ==
    Called =>
        IF RunPositions(arg) = {}
        THEN Outcome = Failed(<<>>, <<"fail", "run_absent", "a_flow.py", arg.name>>)
        ELSE /\ Outcome = check_run_method(
                    Class(arg.name, SubSeq(arg.body, 1, FirstRunPosition(arg))), "a_flow.py")
             /\ Kind(Outcome) # "run_absent"
             /\ arg.body[FirstRunPosition(arg)].type = "FunctionDef"
                    => Kind(Outcome) = "run_not_async"
             /\ arg.body[FirstRunPosition(arg)] = ValidRun => ~Outcome.died

C10_Witness ==
    /\ Called
    /\ Cardinality(RunPositions(arg)) >= 2
    /\ arg.body[FirstRunPosition(arg)] = SyncRun
    /\ \E i \in RunPositions(arg) : arg.body[i] = ValidRun
    /\ Kind(Outcome) = "run_not_async"

\* The async main the entry-point check judges.
JudgedMain == arg[AsyncMainIndex(arg)]

\* A parameter of any kind: positional-only, positional, keyword-only, *args, **kwargs.
HasAnyParameter(f) ==
    \/ f.args.posonlyargs # <<>>
    \/ f.args.args # <<>>
    \/ f.args.kwonlyargs # <<>>
    \/ f.args.vararg # None
    \/ f.args.kwarg # None

\* C6: an async top-level main with a parameter of any kind (positional-only
\* ones included) is rejected with 'main must take no arguments', and only a
\* main with an empty signature gets past that step.
C6_MainRejectsAnyParameter ==
    (Called /\ AsyncMainIndex(arg) # 0) =>
        (HasAnyParameter(JudgedMain) <=> Kind(Outcome) = "main_takes_arguments")

\* A top-level expression statement that is the call main(...).
DirectCallShape(node) ==
    /\ node.type = "Expr"
    /\ node.value.type = "Call"
    /\ node.value.func = NameExpr("main")

\* A top-level expression statement asyncio.run(<call of main>) with that call
\* as the sole positional argument.
AsyncioRunShape(node) ==
    /\ node.type = "Expr"
    /\ node.value.type = "Call"
    /\ node.value.func = AttributeExpr(NameExpr("asyncio"), "run")
    /\ Len(node.value.args) = 1
    /\ node.value.args[1].type = "Call"
    /\ node.value.args[1].func = NameExpr("main")

\* C7: for a module with an async main of empty signature, the invocation
\* check passes if and only if some top-level expression statement is main()
\* or asyncio.run(main()) with main() as the sole positional argument;
\* otherwise the outcome is 'main is defined but never invoked'.
C7_InvocationShapes ==
    (Called /\ AsyncMainIndex(arg) # 0 /\ ~HasAnyParameter(JudgedMain)) =>
        IF \E i \in DOMAIN arg : DirectCallShape(arg[i]) \/ AsyncioRunShape(arg[i])
        THEN ~Outcome.died
        ELSE Kind(Outcome) = "main_not_invoked"

\* LocalModuleSet: the directories and the .py files of the project root,
\* without the package's own name.
LocalModuleSet(root) ==
    ({e.name : e \in {x \in root : x.kind = "dir"}}
        \cup {[i \in 1..(Len(e.name) - 1) |-> e.name[i]] :
                 e \in {x \in root : x.kind = "file" /\ Len(x.name) >= 2
                                        /\ x.name[Len(x.name)] = ".py"}})
    \ {<<"app">>}

\* The first dotted segment of a path: what stands before its first dot.
RootName(path) ==
    LET dots == {i \in DOMAIN path : path[i] = "."}
    IN  IF dots = {} THEN path
        ELSE [i \in 1..((CHOOSE d \in dots : \A e \in dots : d <= e) - 1) |-> path[i]]

\* Whether importing the dotted path is a boundary violation.
PathViolates(path, root) ==
    /\ path # <<"eksmo_src", ".", "eksmo_types">>
    /\ RootName(path) \in LocalModuleSet(root)

\* The paths of one import statement that the boundary rule looks at, in order.
RestrictedPaths(node) ==
    IF node.type = "Import" THEN node.names
    ELSE IF node.type = "ImportFrom" /\ node.level = 0 THEN <<node.module>>
    ELSE <<>>

NodeViolates(node, root) ==
    \E k \in DOMAIN RestrictedPaths(node) : PathViolates(RestrictedPaths(node)[k], root)

\* What the scan reads: the entries rglob yields before the first directory.
Scanned(files) ==
    LET dirsAt == {i \in DOMAIN files : files[i].kind = "dir"}
    IN  IF dirsAt = {} THEN files
        ELSE SubSeq(files, 1, (CHOOSE d \in dirsAt : \A e \in dirsAt : d <= e) - 1)

\* C8: over every import statement of every file under app/ that the scan
\* reads, a relative from-import is never a violation, the exact path
\* eksmo_src.eksmo_types is never a violation, and any other path is a
\* violation exactly when its first segment is in LocalModuleSet (so never
\* for external roots or for app itself); the check fails exactly when some
\* import read is a violation, and the line printed names the first violating
\* path in scan order.  The scan reads every file unless rglob yields a
\* directory named *.py, where it ends with an exception if no import read
\* before is a violation.
C8_ImportBoundary ==
    Called =>
        LET files == Scanned(arg.files)
        IN  /\ (Outcome.died /\ ~Outcome.raised) <=>
                  \E f \in DOMAIN files : \E n \in DOMAIN files[f].walk :
                      NodeViolates(files[f].walk[n], arg.root)
            /\ (Outcome.died /\ ~Outcome.raised) =>
                  \E f \in DOMAIN files : \E n \in DOMAIN files[f].walk :
                    LET node == files[f].walk[n]
                        paths == RestrictedPaths(node)
                    IN  /\ \A g \in 1..f : \A m \in DOMAIN files[g].walk :
                              (g < f \/ m < n) => ~NodeViolates(files[g].walk[m], arg.root)
                        /\ \E k \in DOMAIN paths :
                              /\ PathViolates(paths[k], arg.root)
                              /\ \A j \in 1..(k - 1) : ~PathViolates(paths[j], arg.root)
                              /\ LastLine(Outcome)[3] = <<files[f].dirs, files[f].name>>
                              /\ LastLine(Outcome)[4] = paths[k]
                              /\ Kind(Outcome) = IF node.type = "Import" THEN "import_local"
                                                 ELSE "import_local_from"
            /\ Outcome.raised => (files # arg.files /\ Outcome = Raised(<<>>))
            /\ ~Outcome.died => (files = arg.files
                                   /\ Outcome = Passed(<<<<"ok", "app_imports">>>>))

C8_Witness ==
    /\ Called
    /\ Entry(<<"eksmo_src">>, "dir") \in arg.root
    /\ Len(arg.files) = 1
    /\ arg.files[1].walk = <<ImportFrom(pEksmoOther, 2), Import(<<pEksmoTypes, pEksmoOther>>)>>
    /\ Outcome = Failed(<<>>, <<"fail", "import_local", <<AppPath, ConstsName>>, pEksmoOther>>)

(***************************************************************************)
(* Projects.  A project is the conforming layout changed by a set of at    *)
(* most MaxDeviations deviations, each named by a string.                  *)
(***************************************************************************)
MissingDeviations ==
    { "no_app", "no_outsource", "no_flows", "no_consts", "no_demonstration", "no_main",
      "no_eksmo_src", "no_precommit", "no_pyproject", "no_readme" }

ContentDeviations ==
    { "app_extra_file", "app_extra_dir",
      "consts_imports_other", "a_imports_demonstration", "a_breaks_both",
      "flows_helper", "flows_notes",
      "main_sync", "main_posonly", "main_not_called", "main_two_args",
      "a_no_flow", "a_two_flows", "a_sync_run", "b_no_classmethod", "b_no_run",
      "readme_empty", "readme_no_heading", "readme_no_description", "readme_no_install",
      "readme_no_run",
      "consts_at_limit", "a_too_long", "main_too_long", "venv_too_long",
      "under_env", "tools_pkg_dir", "flows_c_flow_dir" }

Deviations == MissingDeviations \cup ContentDeviations

pDemonstrationMain == <<"demonstration", ".", "main">>

ConstsFile(D) ==
    File(AppPath, ConstsName,
         IF "consts_imports_other" \in D THEN <<Import(<<pEksmoOther>>)>>
         ELSE <<ImportFrom(pEksmoTypes, 0)>>,
         <<>>,
         IF "consts_at_limit" \in D THEN max_lines ELSE 1,
         <<>>)

AFlowFile(D) ==
    File(FLOWS_DIR, AFlowName,
         IF {"a_imports_demonstration", "a_breaks_both"} \cap D # {}
         THEN <<ImportFrom(pDemonstrationMain, 0)>>
         ELSE <<Import(<<pOs>>)>>,
         IF "a_no_flow" \in D THEN <<Class(sAflow, <<ValidRun>>)>>
         ELSE IF {"a_two_flows", "a_breaks_both"} \cap D # {}
         THEN <<Class(sAFlow, <<ValidRun>>), Class(sFlow, <<ValidRun>>)>>
         ELSE IF "a_sync_run" \in D THEN <<Class(sAFlow, <<SyncRun>>)>>
         ELSE <<Class(sAFlow, <<ValidRun>>)>>,
         IF "a_too_long" \in D THEN max_lines + 1 ELSE 1,
         <<>>)

BFlowFile(D) ==
    File(FLOWS_DIR, BFlowName, <<>>,
         IF "b_no_classmethod" \in D THEN <<Class(sBFlow, <<PlainRun>>)>>
         ELSE IF "b_no_run" \in D THEN <<Class(sBFlow, <<Helper>>)>>
         ELSE <<Class(sBFlow, <<ValidRun>>)>>,
         1, <<>>)

RunsMain == ExprStmt(CallExpr(AsyncioRun, <<MainCall>>))

MainPyFile(D) ==
    File(DemonstrationPath, <<"main", ".py">>, <<>>,
         IF "main_sync" \in D THEN <<SyncMain, RunsMain>>
         ELSE IF "main_posonly" \in D
         THEN <<AsyncMain(Arguments(<<"a">>, <<>>, <<>>, None, None)), RunsMain>>
         ELSE IF "main_not_called" \in D
         THEN <<AsyncMain(NoArguments), ExprStmt(CallExpr(AsyncioRun, <<OtherCall>>))>>
         ELSE IF "main_two_args" \in D
         THEN <<AsyncMain(NoArguments),
                ExprStmt(CallExpr(AsyncioRun, <<MainCall, NameExpr("x")>>))>>
         ELSE <<AsyncMain(NoArguments), RunsMain>>,
         IF "main_too_long" \in D THEN max_lines + 1 ELSE 1,
         <<>>)

TitleLine == Line(TRUE, 9, {})
DescriptionLine == Line(FALSE, min_description_length + 1, {})
ShortLine == Line(FALSE, min_description_length, {})
InstallLine == Line(TRUE, 15, {"installation", "install"})
UsageLine == Line(TRUE, 7, {"usage"})

ReadmeText(D) ==
    IF "readme_empty" \in D THEN <<>>
    ELSE (IF "readme_no_heading" \in D THEN <<DescriptionLine>> ELSE <<TitleLine>>)
         \o (IF "readme_no_description" \in D THEN <<ShortLine>> ELSE <<DescriptionLine>>)
         \o (IF "readme_no_install" \in D THEN <<>> ELSE <<InstallLine>>)
         \o (IF "readme_no_run" \in D THEN <<>> ELSE <<UsageLine>>)

PlainFile(dirs, name, lines) == File(dirs, name, <<>>, <<>>, lines, <<>>)

\* The script itself: Path(__file__) stands in a directory of the project
\* root, here called scripts, and is one of the *.py files of the project.
ScriptFile == PlainFile(<< <<"scripts">> >>, <<"precheck", ".py">>, 418)

AllFiles(D) ==
    { ConstsFile(D), AFlowFile(D), BFlowFile(D), MainPyFile(D), ScriptFile,
      PlainFile(<<>>, <<".pre-commit-config", ".yaml">>, 1),
      PlainFile(<<>>, <<"pyproject", ".toml">>, 1),
      File(<<>>, <<"README", ".md">>, <<>>, <<>>, 1, ReadmeText(D)) }
    \cup (IF "app_extra_file" \in D THEN {PlainFile(AppPath, <<"extra", ".py">>, 1)} ELSE {})
    \cup (IF "flows_helper" \in D THEN {PlainFile(FLOWS_DIR, <<"helper", ".py">>, 1)} ELSE {})
    \cup (IF "flows_notes" \in D THEN {PlainFile(FLOWS_DIR, <<"notes", ".txt">>, 1)} ELSE {})
    \cup (IF "venv_too_long" \in D
          THEN {PlainFile(<< <<"venv">>, <<"lib">> >>, <<"big", ".py">>, max_lines + 1)} ELSE {})

AllDirs(D) ==
    { AppPath, OutsourcePath, FLOWS_DIR, DemonstrationPath, EksmoSrcPath, << <<"scripts">> >> }
    \cup (IF "app_extra_dir" \in D THEN {AppPath \o << <<"helpers">> >>} ELSE {})
    \cup (IF "venv_too_long" \in D
          THEN {<< <<"venv">> >>, << <<"venv">>, <<"lib">> >>} ELSE {})
    \cup (IF "tools_pkg_dir" \in D
          THEN {<< <<"tools">> >>, << <<"tools">>, <<"pkg", ".py">> >>} ELSE {})
    \cup (IF "flows_c_flow_dir" \in D
          THEN {FLOWS_DIR \o << <<"c", "_flow", ".py">> >>} ELSE {})

RemovedDirs(D) ==
    (IF "no_app" \in D THEN {AppPath} ELSE {})
    \cup (IF "no_outsource" \in D THEN {OutsourcePath} ELSE {})
    \cup (IF "no_flows" \in D THEN {FLOWS_DIR} ELSE {})
    \cup (IF "no_demonstration" \in D THEN {DemonstrationPath} ELSE {})
    \cup (IF "no_eksmo_src" \in D THEN {EksmoSrcPath} ELSE {})

RemovedFiles(D) ==
    (IF "no_consts" \in D THEN {<<AppPath, ConstsName>>} ELSE {})
    \cup (IF "no_main" \in D THEN {<<DemonstrationPath, <<"main", ".py">>>>} ELSE {})
    \cup (IF "no_precommit" \in D THEN {<<<<>>, <<".pre-commit-config", ".yaml">>>>} ELSE {})
    \cup (IF "no_pyproject" \in D THEN {<<<<>>, <<"pyproject", ".toml">>>>} ELSE {})
    \cup (IF "no_readme" \in D THEN {<<<<>>, <<"README", ".md">>>>} ELSE {})

\* A removed directory takes everything below it with it.
Gone(D, dirs) == \E r \in RemovedDirs(D) : IsUnder(dirs, r)

\* Path(__file__).resolve().parent.parent: where the project stands.
ProjectRoot(D) ==
    IF "under_env" \in D THEN << <<"home">>, <<"env">>, <<"proj">> >>
    ELSE << <<"home">>, <<"proj">> >>

MkProject(D) ==
    [root |-> ProjectRoot(D),
     files |-> {f \in AllFiles(D) : ~Gone(D, f.dirs) /\ <<f.dirs, f.name>> \notin RemovedFiles(D)},
     dirs |-> {d \in AllDirs(D) : ~Gone(D, d)}]

Projects(n) == {MkProject(D) : D \in SubsetsUpTo(Deviations, n)}

(***************************************************************************)
(* main(): the eight checks in sequence, run twice in succession.          *)
(***************************************************************************)
\* main() with the import check called after the two shape checks.
CheckSequenceShapeFirst ==
    << "check_project_structure", "check_app_directory_contents", "check_structure",
       "check_demo_main", "check_flow_run_signature", "check_app_imports", "check_readme",
       "check_all_python_files_length" >>

\* The order of the calls in main().
CheckSequence ==
    << "check_project_structure", "check_app_directory_contents", "check_app_imports",
       "check_structure", "check_demo_main", "check_flow_run_signature", "check_readme",
       "check_all_python_files_length" >>

Position(check) == CHOOSE i \in DOMAIN CheckSequence : CheckSequence[i] = check

\* Where main() goes when the check returns.
After(check) ==
    IF Position(check) = Len(CheckSequence) THEN "banner"
    ELSE CheckSequence[Position(check) + 1]

Init ==
    /\ proj \in Projects(MaxDeviations)
    /\ pc = "main"
    /\ out = <<>>
    /\ exitCode = <<>>
    /\ started = <<>>
    /\ runNo = 1
    /\ prevOut = <<>>
    /\ prevExit = <<>>
    /\ arg = <<>>
    /\ res = <<>>

\* print('Запуск предвалидатора…')
StartMain ==
    /\ pc = "main"
    /\ out' = Append(out, <<"start">>)
    /\ pc' = CheckSequence[1]
    /\ UNCHANGED <<proj, exitCode, started, runNo, prevOut, prevExit, arg, res>>

\* main() calls `check`, whose outcome is r: its lines are printed, and
\* either fail() has ended the process with status 1 or main() goes on.
Step(check, r) ==
    /\ pc = check
    /\ started' = Append(started, check)
    /\ out' = out \o r.out
    /\ IF r.died
       THEN pc' = "exited" /\ exitCode' = <<1>>
       ELSE pc' = After(check) /\ exitCode' = exitCode
    /\ UNCHANGED <<proj, runNo, prevOut, prevExit, arg, res>>

CheckProjectStructure == Step("check_project_structure", check_project_structure(proj))

CheckAppDirectoryContents ==
    /\ pc = "check_app_directory_contents"
    /\ \E order \in Orders(IterDir(proj, AppPath)) :
          Step("check_app_directory_contents",
               check_app_directory_contents(proj, Yielded(IterDir(proj, AppPath), order)))

CheckAppImports ==
    /\ pc = "check_app_imports"
    /\ \E order \in Orders(RGlobPy(proj, AppPath)) :
          Step("check_app_imports",
               check_app_imports(proj, Yielded(RGlobPy(proj, AppPath), order)))

CheckStructure ==
    /\ pc = "check_structure"
    /\ \E order \in Orders(IterDir(proj, FLOWS_DIR)) :
          Step("check_structure",
               check_structure(proj, Yielded(IterDir(proj, FLOWS_DIR), order)))

CheckDemoMain == Step("check_demo_main", check_demo_main(proj))

CheckFlowRunSignature ==
    /\ pc = "check_flow_run_signature"
    /\ \E order \in Orders(GlobFlow(proj)) :
          Step("check_flow_run_signature",
               check_flow_run_signature(Yielded(GlobFlow(proj), order)))

CheckReadme == Step("check_readme", check_readme(proj))

CheckAllPythonFilesLength ==
    /\ pc = "check_all_python_files_length"
    /\ \E order \in Orders(RGlobPy(proj, <<>>)) :
          Step("check_all_python_files_length",
               check_all_python_files_length(proj, Yielded(RGlobPy(proj, <<>>), order)))

\* The banner, and the interpreter leaving with status 0.
Finish ==
    /\ pc = "banner"
    /\ out' = Append(out, <<"banner">>)
    /\ exitCode' = <<0>>
    /\ pc' = "exited"
    /\ UNCHANGED <<proj, started, runNo, prevOut, prevExit, arg, res>>

\* The suite is run a second time on the unchanged project.
RunAgain ==
    /\ pc = "exited"
    /\ runNo = 1
    /\ prevOut' = out
    /\ prevExit' = exitCode
    /\ runNo' = 2
    /\ pc' = "main"
    /\ out' = <<>>
    /\ exitCode' = <<>>
    /\ started' = <<>>
    /\ UNCHANGED <<proj, arg, res>>

Next ==
    \/ StartMain
    \/ CheckProjectStructure
    \/ CheckAppDirectoryContents
    \/ CheckAppImports
    \/ CheckStructure
    \/ CheckDemoMain
    \/ CheckFlowRunSignature
    \/ CheckReadme
    \/ CheckAllPythonFilesLength
    \/ Finish
    \/ RunAgain

Spec == Init /\ [][Next]_vars

(***************************************************************************)
(* Properties of a run of main().                                          *)
(***************************************************************************)
Exited == pc = "exited"
FailLines(lines) == {i \in DOMAIN lines : lines[i][1] = "fail"}
BannerLines(lines) == {i \in DOMAIN lines : lines[i] = <<"banner">>}
IsPrefix(a, b) == Len(a) <= Len(b) /\ SubSeq(b, 1, Len(a)) = a
LastStarted == started[Len(started)]

\* The check that prints a fail line of the given kind.
CheckOfKind(kind) ==
    IF kind \in {"missing_file", "missing_dir"} THEN "check_project_structure"
    ELSE IF kind \in {"app_missing", "app_bad_dir", "app_bad_file"}
    THEN "check_app_directory_contents"
    ELSE IF kind \in {"import_local", "import_local_from"} THEN "check_app_imports"
    ELSE IF kind \in {"flows_missing", "flow_bad_name"} THEN "check_structure"
    ELSE IF kind \in {"main_file_missing", "main_not_async", "main_missing",
                      "main_takes_arguments", "main_not_invoked"} THEN "check_demo_main"
    ELSE IF kind \in {"flow_missing", "flow_multiple", "run_absent", "run_not_async",
                      "run_not_classmethod", "run_no_total_usage"}
    THEN "check_flow_run_signature"
    ELSE IF kind \in {"readme_missing", "readme_empty", "readme_no_heading",
                      "readme_no_description", "readme_no_install", "readme_no_run"}
    THEN "check_readme"
    ELSE "check_all_python_files_length"

EightChecks ==
    << "check_project_structure", "check_app_directory_contents", "check_app_imports",
       "check_structure", "check_demo_main", "check_flow_run_signature", "check_readme",
       "check_all_python_files_length" >>

\* C1: a run ends in exactly one of two ways: all eight checks returned, the
\* banner is the last line and the status is 0; or the check that found the
\* first violation printed exactly one fail line, which is the last line of
\* the output, the status is 1 and no later check was started (no banner, no
\* success marker and no second fail line after it).  Until then no fail
\* line and no banner is printed.
C1_ExitContract ==
    /\ ~Exited => (FailLines(out) = {} /\ BannerLines(out) = {} /\ exitCode = <<>>)
    /\ Exited =>
        \/ /\ exitCode = <<0>>
           /\ started = EightChecks
           /\ FailLines(out) = {}
           /\ BannerLines(out) = {Len(out)}
        \/ /\ exitCode = <<1>>
           /\ FailLines(out) = {Len(out)}
           /\ BannerLines(out) = {}
           /\ IsPrefix(started, EightChecks)
           /\ started # <<>>
           /\ LastStarted = CheckOfKind(out[Len(out)][2])

ReadmeMissing == ~IsFile(proj, <<>>, <<"README", ".md">>)

\* The nine required entries other than README.md are all there.
OthersPresent ==
    /\ {AppPath, OutsourcePath, FLOWS_DIR, DemonstrationPath, EksmoSrcPath} \subseteq proj.dirs
    /\ \A path \in {<<AppPath, <<"consts", ".py">>>>,
                    <<DemonstrationPath, <<"main", ".py">>>>,
                    <<<<>>, <<".pre-commit-config", ".yaml">>>>,
                    <<<<>>, <<"pyproject", ".toml">>>>} :
          \E f \in proj.files : f.dirs = path[1] /\ f.name = path[2]

ReadmeMissingLine == <<"fail", "missing_file", <<"README", ".md">>>>

\* C2 as stated: a project without README.md fails in the first check with
\* the line naming README.md and status 1, before any import or shape check.
C2_MissingReadmeNamed ==
    (Exited /\ ReadmeMissing) =>
        /\ exitCode = <<1>>
        /\ started = <<"check_project_structure">>
        /\ out = <<<<"start">>, ReadmeMissingLine>>

\* C2 amended: a project without README.md fails in the first check with
\* status 1 before any other check has started; the one fail line names the
\* first missing entry of the required structure, which is README.md exactly
\* when the nine other required entries exist.
C2_MissingReadmeStopsFirstCheck ==
    (Exited /\ ReadmeMissing) =>
        /\ exitCode = <<1>>
        /\ started = <<"check_project_structure">>
        /\ Len(out) = 2
        /\ out[1] = <<"start">>
        /\ out[2][1] = "fail"
        /\ out[2][2] \in {"missing_file", "missing_dir"}
        /\ OthersPresent <=> out[2] = ReadmeMissingLine

C2_Witness ==
    /\ Exited
    /\ ReadmeMissing
    /\ OthersPresent
    /\ out = <<<<"start">>, ReadmeMissingLine>>
    /\ exitCode = <<1>>

ShapeChecks == {"check_demo_main", "check_flow_run_signature"}

\* Some file under app/ holds an import that the boundary rule forbids.
ViolatesImportRule ==
    \E f \in {g \in proj.files : g.dirs # <<>> /\ g.dirs[1] = <<"app">>
                                  /\ g.name[Len(g.name)] = ".py"} :
        \E n \in DOMAIN f.walk : NodeViolates(f.walk[n], IterDir(proj, <<>>))

\* main.py or some flow file breaks a shape rule.
ViolatesShapeRule ==
    \/ \E f \in proj.files :
          f.dirs = DemonstrationPath /\ f.name = <<"main", ".py">> /\ demo_main_tree(f.tree).died
    \/ \E f \in {g \in proj.files : g.dirs = FLOWS_DIR /\ EndsWith(g.name, <<"_flow", ".py">>)} :
          check_flow_file(f.name, f.tree).died

\* The first two checks (required structure, contents of app/) have passed:
\* main() has gone on to the import check.
PassedFirstTwoChecks == Len(started) >= 3

\* C3 as stated: the shape checks run before the import check, which runs
\* before the README and length checks, so a project that breaks both a shape
\* rule and the import rule reports the shape violation.
C3_ShapeBeforeImports ==
    /\ "check_app_imports" \in Range(started) => ShapeChecks \subseteq Range(started)
    /\ "check_readme" \in Range(started) => "check_app_imports" \in Range(started)
    /\ (Exited /\ PassedFirstTwoChecks /\ ViolatesImportRule /\ ViolatesShapeRule)
          => /\ FailLines(out) = {Len(out)}
             /\ CheckOfKind(out[Len(out)][2]) \in ShapeChecks

\* C3 amended: the checks run in one fixed sequence in which the import check
\* comes third, before the shape checks (main.py, then the flow files), which
\* come before the README and length checks; so a project that passes the
\* two checks before the import check and breaks both a shape rule and the
\* import rule never reports the shape violation: the run ends in the import
\* check with status 1 before any shape check has started, and a violation
\* line it prints is the one line of the import violation.
C3_ImportsBeforeShape ==
    /\ IsPrefix(started, EightChecks)
    /\ Range(started) \cap ShapeChecks # {} => "check_app_imports" \in Range(started)
    /\ "check_readme" \in Range(started) => ShapeChecks \subseteq Range(started)
    /\ (Exited /\ PassedFirstTwoChecks /\ ViolatesImportRule /\ ViolatesShapeRule)
          => /\ exitCode = <<1>>
             /\ LastStarted = "check_app_imports"
             /\ Range(started) \cap ShapeChecks = {}
             /\ \A i \in FailLines(out) :
                   i = Len(out) /\ CheckOfKind(out[i][2]) = "check_app_imports"

C3_Witness ==
    /\ Exited
    /\ PassedFirstTwoChecks
    /\ ViolatesImportRule
    /\ ViolatesShapeRule
    /\ out[Len(out)][2] = "import_local"
    /\ started = <<"check_project_structure", "check_app_directory_contents",
                   "check_app_imports">>

\* C9: the second run on the unchanged project ends with the same status and
\* has printed the same lines in the same order as the first.
C9_SameOutputTwice ==
    (Exited /\ runNo = 2) => (exitCode = prevExit /\ out = prevOut)

==========================================================================
